---------------------------- MODULE Spec2Model ----------------------------
(***************************************************************************)
(* The data pipeline of the technology-index dashboard:                    *)
(*   validateAndProcessData  (Schema Validator)                            *)
(*   standardizeCountryNames (Name Normalizer)                             *)
(*   processExcelData        (Orchestrator and Weighted Scorer)            *)
(* and the App component that calls it from a file load and from the       *)
(* effect on [sectorWeights, rawData].                                     *)
(*                                                                         *)
(* Representation.  A JavaScript value is a record [t, s, k, n]: t is the  *)
(* typeof tag, s the characters of a string (a sequence of one-character   *)
(* strings, so that trim and parseFloat are computed, not assumed), k the  *)
(* kind of a number (finite, NaN, +Infinity, -Infinity) and n the value of *)
(* a finite number.  Numbers are integers: a cell score is itself, a       *)
(* weight w is held as the integer 20*w (the slider moves in steps of      *)
(* 0.05), so every product and sum is 20 times the program's; rounding of  *)
(* IEEE doubles is not modelled.                                           *)
(***************************************************************************)
EXTENDS Integers, Sequences, FiniteSets, TLC

VARIABLES
  \* ---- one call of processExcelData(rawData, weights)
  argRows,          \* the rawData argument
  argWeights,       \* the weights argument
  pc,               \* position of the call
  index,            \* forEach index (1-based) of validateAndProcessData
  validation,       \* { isValid, errors, warnings }
  processedData,    \* records pushed so far by the validator
  countrySet,       \* countries seen so far by the validator
  standardizedData, \* output of standardizeCountryNames
  result,           \* value returned by processExcelData
  trace,            \* stages entered by this call, in order
  \* ---- App component state
  rawData, data, sectorWeights, error,
  selectedSector,   \* "null" or the sector picked in the pie chart
  selectedCountry,  \* "null" or the country picked on the map or in a chart
  readers,          \* FileReader loads in flight: file rows and the weights
                    \* captured by the onDrop closure
  effectDue,        \* the [sectorWeights, rawData] effect has to run:
                    \* "no", or the dependency that changed
  handler,          \* which App callback is running the pipeline
  changes,          \* number of weight changes made so far (bounded)
  shown,            \* the arguments of the call whose output setData stored
  \* ---- a caller that calls processExcelData several times
  past              \* the calls that have returned: arguments and output

pipeVars == <<argRows, argWeights, pc, index, validation, processedData,
              countrySet, standardizedData, result, trace>>
appVars  == <<rawData, data, sectorWeights, error, readers, effectDue,
              handler, changes, shown, selectedSector, selectedCountry, past>>
vars     == <<argRows, argWeights, pc, index, validation, processedData,
              countrySet, standardizedData, result, trace,
              rawData, data, sectorWeights, error, readers, effectDue,
              handler, changes, shown, selectedSector, selectedCountry, past>>

-----------------------------------------------------------------------------
(* Bounds of the model *)
MaxRows == 2
MaxReaders == 2
MaxChanges == 2
MaxCalls == 3

-----------------------------------------------------------------------------
(* JavaScript values *)
Str(chars) == [t |-> "string", s |-> chars, k |-> "fin", n |-> 0]
Num(i)     == [t |-> "number", s |-> <<>>, k |-> "fin", n |-> i]
NaN        == [t |-> "number", s |-> <<>>, k |-> "nan", n |-> 0]
PosInf     == [t |-> "number", s |-> <<>>, k |-> "inf", n |-> 0]
NegInf     == [t |-> "number", s |-> <<>>, k |-> "ninf", n |-> 0]
Undefined  == [t |-> "undefined", s |-> <<>>, k |-> "fin", n |-> 0]

\* !v
Falsy(v) ==
  \/ v.t = "undefined"
  \/ v.t = "null"
  \/ v.t = "string" /\ v.s = <<>>
  \/ v.t = "number" /\ (v.k = "nan" \/ (v.k = "fin" /\ v.n = 0))

IsNaN(v) == v.t = "number" /\ v.k = "nan"
\* v < 0 and v > 1 on numbers (both false on NaN)
Negative(v)   == v.t = "number" /\ ((v.k = "fin" /\ v.n < 0) \/ v.k = "ninf")
GreaterOne(v) == v.t = "number" /\ ((v.k = "fin" /\ v.n > 1) \/ v.k = "inf")
IsFinite(v)   == v.t = "number" /\ v.k = "fin"

\* ToNumber of an operand of *: undefined is NaN
ToNumber(v) == IF v.t = "number" THEN v ELSE NaN

SignOf(v) ==
  IF v.k = "inf" THEN 1
  ELSE IF v.k = "ninf" THEN -1
  ELSE IF v.n > 0 THEN 1 ELSE IF v.n < 0 THEN -1 ELSE 0

\* a * b
Times(a, b) ==
  LET x == ToNumber(a)
      y == ToNumber(b)
  IN  IF x.k = "nan" \/ y.k = "nan" THEN NaN
      ELSE IF x.k = "fin" /\ y.k = "fin" THEN Num(x.n * y.n)
      ELSE IF SignOf(x) * SignOf(y) = 0 THEN NaN
      ELSE IF SignOf(x) * SignOf(y) > 0 THEN PosInf ELSE NegInf

\* a + b
Plus(a, b) ==
  LET x == ToNumber(a)
      y == ToNumber(b)
  IN  IF x.k = "nan" \/ y.k = "nan" THEN NaN
      ELSE IF x.k = "fin" /\ y.k = "fin" THEN Num(x.n + y.n)
      ELSE IF x.k = "fin" THEN y
      ELSE IF y.k = "fin" THEN x
      ELSE IF x.k = y.k THEN x ELSE NaN

\* Array.prototype.reduce((sum, score) => sum + score, 0)
RECURSIVE SumFrom(_, _)
SumFrom(acc, seq) ==
  IF seq = <<>> THEN acc ELSE SumFrom(Plus(acc, Head(seq)), Tail(seq))

-----------------------------------------------------------------------------
(* Strings: String.prototype.trim and parseFloat *)
WhiteSpace == {" ", "\t", "\n"}
Digits == <<"0", "1", "2", "3", "4", "5", "6", "7", "8", "9">>
IsDigit(c) == \E d \in 1..10 : Digits[d] = c
DigitValue(c) == (CHOOSE d \in 1..10 : Digits[d] = c) - 1

RECURSIVE TrimStart(_)
TrimStart(s) ==
  IF s # <<>> /\ Head(s) \in WhiteSpace THEN TrimStart(Tail(s)) ELSE s

RECURSIVE TrimEnd(_)
TrimEnd(s) ==
  IF s # <<>> /\ s[Len(s)] \in WhiteSpace
  THEN TrimEnd(SubSeq(s, 1, Len(s) - 1)) ELSE s

Trim(s) == TrimEnd(TrimStart(s))

StartsWith(s, p) == Len(s) >= Len(p) /\ SubSeq(s, 1, Len(p)) = p

\* the longest prefix of decimal digits, as a number; -1 when there is none
RECURSIVE DigitsPrefix(_, _, _)
DigitsPrefix(s, any, acc) ==
  IF s # <<>> /\ IsDigit(Head(s))
  THEN DigitsPrefix(Tail(s), TRUE, 10 * acc + DigitValue(Head(s)))
  ELSE IF any THEN acc ELSE -1

\* parseFloat of a string without a fraction or an exponent part
ParseFloatChars(chars) ==
  LET s0   == TrimStart(chars)
      neg  == s0 # <<>> /\ Head(s0) = "-"
      sgn  == s0 # <<>> /\ Head(s0) \in {"-", "+"}
      body == IF sgn THEN Tail(s0) ELSE s0
      d    == DigitsPrefix(body, FALSE, 0)
  IN  IF StartsWith(body, <<"I", "n", "f", "i", "n", "i", "t", "y">>)
      THEN (IF neg THEN NegInf ELSE PosInf)
      ELSE IF d < 0 THEN NaN
      ELSE Num(IF neg THEN 0 - d ELSE d)

\* parseFloat(v): v is converted to a string first
ParseFloat(v) ==
  IF v.t = "number" THEN v
  ELSE IF v.t = "string" THEN ParseFloatChars(v.s)
  ELSE NaN

-----------------------------------------------------------------------------
(* Tables of dataValidation *)
REQUIRED_COLUMNS ==
  <<"Country", "AI", "Quantum", "Semiconductors", "Biotech", "Space", "Fintech">>

\* Object.entries(SECTOR_WEIGHTS): the six sector keys in insertion order
SECTOR_WEIGHTS ==
  <<"ai", "quantum", "semiconductors", "biotech", "space", "fintech">>

Sectors == {SECTOR_WEIGHTS[i] : i \in 1..Len(SECTOR_WEIGHTS)}

\* the Excel column of an internal field name
COLUMN_MAPPINGS(field) ==
  CASE field = "country" -> "Country"
    [] field = "ai" -> "AI"
    [] field = "quantum" -> "Quantum"
    [] field = "semiconductors" -> "Semiconductors"
    [] field = "biotech" -> "Biotech"
    [] field = "space" -> "Space"
    [] field = "fintech" -> "Fintech"

s_UnitedStatesofAmerica == <<"U", "n", "i", "t", "e", "d", " ", "S", "t", "a", "t", "e", "s", " ", "o", "f", " ", "A", "m", "e", "r", "i", "c", "a">>
s_UnitedKingdom == <<"U", "n", "i", "t", "e", "d", " ", "K", "i", "n", "g", "d", "o", "m">>
s_China == <<"C", "h", "i", "n", "a">>
s_SouthKorea == <<"S", "o", "u", "t", "h", " ", "K", "o", "r", "e", "a">>
s_NorthKorea == <<"N", "o", "r", "t", "h", " ", "K", "o", "r", "e", "a">>
s_Russia == <<"R", "u", "s", "s", "i", "a">>
s_Czechia == <<"C", "z", "e", "c", "h", "i", "a">>
s_UnitedArabEmirates == <<"U", "n", "i", "t", "e", "d", " ", "A", "r", "a", "b", " ", "E", "m", "i", "r", "a", "t", "e", "s">>

\* alias -> official name, as pairs
COUNTRY_NAME_MAPPINGS ==
  << <<<<"U", "S", "A">>, s_UnitedStatesofAmerica>>,
     <<<<"U", "S">>, s_UnitedStatesofAmerica>>,
     <<<<"U", "n", "i", "t", "e", "d", " ", "S", "t", "a", "t", "e", "s">>, s_UnitedStatesofAmerica>>,
     <<<<"U", "K">>, s_UnitedKingdom>>,
     <<<<"P", "R", "C">>, s_China>>,
     <<<<"P", "e", "o", "p", "l", "e", "'", "s", " ", "R", "e", "p", "u", "b", "l", "i", "c", " ", "o", "f", " ", "C", "h", "i", "n", "a">>, s_China>>,
     <<<<"K", "o", "r", "e", "a">>, s_SouthKorea>>,
     <<<<"R", "e", "p", "u", "b", "l", "i", "c", " ", "o", "f", " ", "K", "o", "r", "e", "a">>, s_SouthKorea>>,
     <<<<"K", "o", "r", "e", "a", ",", " ", "R", "e", "p", "u", "b", "l", "i", "c", " ", "o", "f">>, s_SouthKorea>>,
     <<<<"K", "o", "r", "e", "a", ",", " ", "D", "e", "m", ".", " ", "R", "e", "p", ".">>, s_NorthKorea>>,
     <<<<"D", "e", "m", "o", "c", "r", "a", "t", "i", "c", " ", "P", "e", "o", "p", "l", "e", "'", "s", " ", "R", "e", "p", "u", "b", "l", "i", "c", " ", "o", "f", " ", "K", "o", "r", "e", "a">>, s_NorthKorea>>,
     <<<<"D", "P", "R", "K">>, s_NorthKorea>>,
     <<<<"R", "u", "s", "s", "i", "a", "n", " ", "F", "e", "d", "e", "r", "a", "t", "i", "o", "n">>, s_Russia>>,
     <<<<"C", "z", "e", "c", "h", " ", "R", "e", "p", "u", "b", "l", "i", "c">>, s_Czechia>>,
     <<<<"U", "A", "E">>, s_UnitedArabEmirates>> >>

IsAlias(chars) ==
  \E i \in 1..Len(COUNTRY_NAME_MAPPINGS) : COUNTRY_NAME_MAPPINGS[i][1] = chars

\* faulty variant: USA is given the name US, which is an alias key itself
AliasOf_Chained(chars) ==
  IF chars = <<"U", "S", "A">> THEN <<"U", "S">>
  ELSE COUNTRY_NAME_MAPPINGS[CHOOSE i \in 1..Len(COUNTRY_NAME_MAPPINGS) :
                               COUNTRY_NAME_MAPPINGS[i][1] = chars][2]

\* COUNTRY_NAME_MAPPINGS[name] for an own key of the table
AliasOf(chars) ==
  COUNTRY_NAME_MAPPINGS[CHOOSE i \in 1..Len(COUNTRY_NAME_MAPPINGS) :
                          COUNTRY_NAME_MAPPINGS[i][1] = chars][2]

s_constructor == <<"c", "o", "n", "s", "t", "r", "u", "c", "t", "o", "r">>
s_toString == <<"t", "o", "S", "t", "r", "i", "n", "g">>
s_valueOf == <<"v", "a", "l", "u", "e", "O", "f">>
s_proto == <<"_", "_", "p", "r", "o", "t", "o", "_", "_">>

\* COUNTRY_NAME_MAPPINGS is an object literal: besides its own keys, a lookup
\* finds the properties of Object.prototype (some of them listed)
ObjectPrototypeKeys == {s_constructor, s_toString, s_valueOf, s_proto}

\* COUNTRY_NAME_MAPPINGS[name] for an inherited name: a function, or
\* Object.prototype itself for __proto__
Inherited(chars) ==
  [t |-> IF chars = s_proto THEN "object" ELSE "function",
   s |-> chars, k |-> "fin", n |-> 0]

-----------------------------------------------------------------------------
(* Rows, row lists and weights *)
NoCells == [c \in {} |-> Undefined]
NullRow == [t |-> "null", cells |-> NoCells]
EmptyRow == [t |-> "object", cells |-> NoCells]

\* Object.keys(row || {})
Keys(row) == DOMAIN row.cells
\* row[col]
Cell(row, col) == IF col \in Keys(row) THEN row.cells[col] ELSE Undefined

NullList == [t |-> "null", rows |-> <<>>]
List(rows) == [t |-> "array", rows |-> rows]

NullWeights == [t |-> "null", w |-> NoCells]
Weights(f) == [t |-> "object", w |-> f]
\* faulty variant: a missing key reads as weight 0
WeightOf_ZeroDefault(weights, sector) ==
  IF sector \in DOMAIN weights.w THEN weights.w[sector] ELSE Num(0)

\* weights[sector]
WeightOf(weights, sector) ==
  IF sector \in DOMAIN weights.w THEN weights.w[sector] ELSE Undefined

\* messages pushed to validation.errors and validation.warnings
Message(kind, sector, country, row, columns) ==
  [kind |-> kind, sector |-> sector, country |-> country, row |-> row,
   columns |-> columns]

-----------------------------------------------------------------------------
(* validateAndProcessData, one row *)

\* the fresh validation object
NewValidation == [isValid |-> TRUE, errors |-> <<>>, warnings |-> <<>>]

\* REQUIRED_COLUMNS.filter(col => !columns.includes(col)) on rawData[0] || {}
MissingColumns(list) ==
  LET first == IF Len(list.rows) >= 1 THEN list.rows[1] ELSE NullRow
      Absent(col) == col \notin Keys(first)
  IN  SelectSeq(REQUIRED_COLUMNS, Absent)

\* !rawData || rawData.length === 0
NoData(list) == list.t = "null" \/ Len(list.rows) = 0

\* !row || Object.keys(row).length === 0
IsEmptyRow(row) == row.t = "null" \/ Keys(row) = {}

\* Object.entries(COLUMN_MAPPINGS).reduce(...): internal name -> row[excelCol]
MappedRow(row) ==
  [field \in {"country"} \cup Sectors |-> Cell(row, COLUMN_MAPPINGS(field))]

\* faulty variant: the typeof test is left out
InvalidCountry_FalsyOnly(mappedRow) == Falsy(mappedRow.country)

\* !mappedRow.country || typeof mappedRow.country !== 'string'
InvalidCountry(mappedRow) ==
  Falsy(mappedRow.country) \/ mappedRow.country.t # "string"

\* faulty variant: the duplicate check compares nothing
IsDuplicate_Never(mappedRow, seen) == FALSE

\* countrySet.has(mappedRow.country)
IsDuplicate(mappedRow, seen) == mappedRow.country.s \in seen

\* the sector loop sets hasInvalidScore for this sector
SectorInvalid(mappedRow, sector) ==
  IsNaN(ParseFloat(mappedRow[sector])) \/ Negative(ParseFloat(mappedRow[sector]))

\* faulty variant: a bad sector value excludes the row without an error
SectorErrors_Silent(mappedRow) == <<>>

\* faulty variant: the message names the i-th sector, not the i-th bad one
SectorErrors_WrongSector(mappedRow) ==
  LET Bad(sector) == SectorInvalid(mappedRow, sector)
      bad == SelectSeq(SECTOR_WEIGHTS, Bad)
  IN  [i \in 1..Len(bad) |->
         Message(IF IsNaN(ParseFloat(mappedRow[bad[i]])) THEN "Invalid value"
                 ELSE "Negative value",
                 SECTOR_WEIGHTS[i], mappedRow.country.s, 0, <<>>)]

\* the errors the sector loop pushes, in sector order
SectorErrors(mappedRow) ==
  LET Bad(sector) == SectorInvalid(mappedRow, sector)
      bad == SelectSeq(SECTOR_WEIGHTS, Bad)
  IN  [i \in 1..Len(bad) |->
         Message(IF IsNaN(ParseFloat(mappedRow[bad[i]])) THEN "Invalid value"
                 ELSE "Negative value",
                 bad[i], mappedRow.country.s, 0, <<>>)]

\* faulty variant: no warning is pushed for a row that has a bad sector value
SectorWarnings_OnlyIfKept(mappedRow) ==
  LET Big(sector) == /\ \A other \in Sectors : ~SectorInvalid(mappedRow, other)
                     /\ GreaterOne(ParseFloat(mappedRow[sector]))
      big == SelectSeq(SECTOR_WEIGHTS, Big)
  IN  [i \in 1..Len(big) |->
         Message("value > 1", big[i], mappedRow.country.s, 0, <<>>)]

\* the warnings the sector loop pushes, in sector order
SectorWarnings(mappedRow) ==
  LET Big(sector) == /\ ~SectorInvalid(mappedRow, sector)
                     /\ GreaterOne(ParseFloat(mappedRow[sector]))
      big == SelectSeq(SECTOR_WEIGHTS, Big)
  IN  [i \in 1..Len(big) |->
         Message("value > 1", big[i], mappedRow.country.s, 0, <<>>)]

\* faulty variant: a value above 1 rejects the row as well
HasInvalidScore_AlsoAboveOne(mappedRow) ==
  \E sector \in Sectors :
    SectorInvalid(mappedRow, sector) \/ GreaterOne(ParseFloat(mappedRow[sector]))

\* hasInvalidScore after the sector loop
HasInvalidScore(mappedRow) ==
  \E sector \in Sectors : SectorInvalid(mappedRow, sector)

\* the countryData record pushed for a row that passed every check
CountryData(mappedRow) ==
  LET sectorScores == [sector \in Sectors |-> ParseFloat(mappedRow[sector])]
  IN  [country |-> Str(Trim(mappedRow.country.s)),
       ai |-> mappedRow.ai,
       quantum |-> mappedRow.quantum,
       semiconductors |-> mappedRow.semiconductors,
       biotech |-> mappedRow.biotech,
       space |-> mappedRow.space,
       fintech |-> mappedRow.fintech,
       totalScore |-> SumFrom(Num(0), [i \in 1..Len(SECTOR_WEIGHTS) |->
                                         sectorScores[SECTOR_WEIGHTS[i]]]),
       sectorScores |-> sectorScores]

\* faulty variant: the record is put in front (unshift)
Push_Front(list, item) == <<item>> \o list

\* processedData.push(countryData)
Push(list, item) == Append(list, item)

-----------------------------------------------------------------------------
(* standardizeCountryNames and the scoring map of processExcelData *)

\* COUNTRY_NAME_MAPPINGS[item.country] || item.country: an own key of the
\* table gives its official name, a property name the object literal inherits
\* gives that (truthy) property, anything else is undefined and falls through
StandardName(country) ==
  IF country.t = "string" /\ IsAlias(country.s) /\ AliasOf(country.s) # <<>>
  THEN Str(AliasOf(country.s))
  ELSE IF country.t = "string" /\ country.s \in ObjectPrototypeKeys
  THEN Inherited(country.s)
  ELSE country

standardizeCountryNames(records) ==
  [i \in 1..Len(records) |-> [records[i] EXCEPT !.country = StandardName(@)]]

\* faulty variant: the weighted values are written over the raw fields too
ScoreCountry_WeightsRawFields(country, weights) ==
  LET sectorScores ==
        [sector \in Sectors |->
           Times(ParseFloat(country[sector]), WeightOf(weights, sector))]
  IN  [country EXCEPT
         !.ai = sectorScores["ai"],
         !.quantum = sectorScores["quantum"],
         !.semiconductors = sectorScores["semiconductors"],
         !.biotech = sectorScores["biotech"],
         !.space = sectorScores["space"],
         !.fintech = sectorScores["fintech"],
         !.totalScore = SumFrom(Num(0), [i \in 1..Len(SECTOR_WEIGHTS) |->
                                           sectorScores[SECTOR_WEIGHTS[i]]]),
         !.sectorScores = sectorScores]

\* faulty variant: totalScore is left as the validator's unweighted sum
ScoreCountry_StaleTotal(country, weights) ==
  LET sectorScores ==
        [sector \in Sectors |->
           Times(ParseFloat(country[sector]), WeightOf(weights, sector))]
  IN  [country EXCEPT !.sectorScores = sectorScores]

\* faulty variant: every sector is multiplied by weights.ai
ScoreCountry_OneWeight(country, weights) ==
  LET sectorScores ==
        [sector \in Sectors |->
           Times(ParseFloat(country[sector]), WeightOf(weights, "ai"))]
  IN  [country EXCEPT
         !.totalScore = SumFrom(Num(0), [i \in 1..Len(SECTOR_WEIGHTS) |->
                                           sectorScores[SECTOR_WEIGHTS[i]]]),
         !.sectorScores = sectorScores]

\* the body of standardizedData.map in processExcelData
ScoreCountry(country, weights) ==
  LET sectorScores ==
        [sector \in Sectors |->
           Times(ParseFloat(country[sector]), WeightOf(weights, sector))]
  IN  [country EXCEPT
         !.totalScore = SumFrom(Num(0), [i \in 1..Len(SECTOR_WEIGHTS) |->
                                           sectorScores[SECTOR_WEIGHTS[i]]]),
         !.sectorScores = sectorScores]

\* reading weights.ai of null or undefined throws a TypeError
ScoringThrows(records, weights) == records # <<>> /\ weights.t = "null"

-----------------------------------------------------------------------------
(* Inputs of the model *)
s_Chad == <<"C", "h", "a", "d">>
s_USA == <<"U", "S", "A">>
s_US == <<"U", "S">>
s_abc == <<"a", "b", "c">>
s_Infinity == <<"I", "n", "f", "i", "n", "i", "t", "y">>

\* a row with all seven columns; the four middle sectors hold 1
Row(country, ai, fintech) ==
  [t |-> "object",
   cells |-> [col \in {REQUIRED_COLUMNS[i] : i \in 1..Len(REQUIRED_COLUMNS)} |->
                CASE col = "Country" -> country
                  [] col = "AI" -> ai
                  [] col = "Fintech" -> fintech
                  [] OTHER -> Num(1)]]

Without(row, col) ==
  [row EXCEPT !.cells = [c \in (DOMAIN row.cells) \ {col} |-> row.cells[c]]]

BaseRow == Row(Str(s_Chad), Num(1), Num(1))

RowPool ==
  {Row(Str(c), Num(1), Num(1)) :
     c \in {s_Chad, <<" ">> \o s_Chad, s_USA, s_US, <<>>, <<" ">>, s_constructor}}
  \cup {Row(Num(5), Num(1), Num(1)), Row(Num(5), Num(-1), Num(2))}
  \cup {Row(Str(s_Chad), a, Num(1)) :
          a \in {Num(-1), Num(2), Str(<<"2">>), Str(s_abc), Str(s_Infinity)}}
  \cup {Row(Str(s_Chad), Num(1), Num(-1)), Row(Str(s_Chad), Num(-1), Str(s_abc)),
        Row(Str(s_Chad), Num(2), Str(s_abc))}
  \cup {EmptyRow, NullRow, Without(BaseRow, "Quantum"), Without(BaseRow, "Country")}

RECURSIVE RowLists(_)
RowLists(n) ==
  IF n = 0 THEN {<<>>}
  ELSE LET shorter == RowLists(n - 1)
       IN  shorter \cup {Append(l, r) : l \in {s \in shorter : Len(s) = n - 1},
                                         r \in RowPool}

\* the rawData values a call may be given
ListPool == {NullList} \cup {List(l) : l \in RowLists(MaxRows)}

\* defaultSectorWeights (in units of 0.05)
defaultSectorWeights ==
  Weights([sector \in Sectors |->
             IF sector \in {"quantum", "fintech"} THEN Num(2) ELSE Num(4)])

DistinctWeights ==
  Weights([sector \in Sectors |->
             CASE sector = "ai" -> Num(0)
               [] sector = "quantum" -> Num(1)
               [] sector = "semiconductors" -> Num(2)
               [] sector = "biotech" -> Num(3)
               [] sector = "space" -> Num(5)
               [] sector = "fintech" -> Num(7)])

\* a weights object without the key "fintech"
PartialWeights ==
  Weights([sector \in Sectors \ {"fintech"} |-> DistinctWeights.w[sector]])

WeightsPool == {defaultSectorWeights, DistinctWeights, PartialWeights, NullWeights}

-----------------------------------------------------------------------------
(* One call of processExcelData, stage by stage *)

\* faulty variant: the set of seen countries outlives the call
Enter_StaleCountrySet(rows, weights) ==
  /\ argRows' = rows
  /\ argWeights' = weights
  /\ pc' = "Validating"
  /\ index' = 0
  /\ validation' = NewValidation
  /\ processedData' = <<>>
  /\ countrySet' = countrySet
  /\ standardizedData' = <<>>
  /\ result' = <<>>
  /\ trace' = <<"Validator">>

\* the caller invokes processExcelData(rows, weights)
Enter(rows, weights) ==
  /\ argRows' = rows
  /\ argWeights' = weights
  /\ pc' = "Validating"
  /\ index' = 0
  /\ validation' = NewValidation
  /\ processedData' = <<>>
  /\ countrySet' = {}
  /\ standardizedData' = <<>>
  /\ result' = <<>>
  /\ trace' = <<"Validator">>

\* faulty variant: the missing-columns branch pushes its error and goes on
ValidateHeader_NoReturn ==
  /\ pc = "Validating"
  /\ IF NoData(argRows)
     THEN /\ validation' = [isValid |-> FALSE,
                            errors |-> <<Message("No data provided", "", <<>>, 0, <<>>)>>,
                            warnings |-> <<>>]
          /\ pc' = "Validated"
          /\ index' = index
     ELSE /\ validation' =
               IF Len(MissingColumns(argRows)) > 0
               THEN [isValid |-> FALSE,
                     errors |-> <<Message("Missing required columns", "", <<>>, 0,
                                          MissingColumns(argRows))>>,
                     warnings |-> <<>>]
               ELSE validation
          /\ pc' = "Rows"
          /\ index' = 1
  /\ UNCHANGED <<argRows, argWeights, processedData, countrySet,
                 standardizedData, result, trace>>
  /\ UNCHANGED appVars

\* validateAndProcessData up to the forEach: the two fail-fast checks
ValidateHeader ==
  /\ pc = "Validating"
  /\ IF NoData(argRows)
     THEN /\ validation' = [isValid |-> FALSE,
                            errors |-> <<Message("No data provided", "", <<>>, 0, <<>>)>>,
                            warnings |-> <<>>]
          /\ pc' = "Validated"
          /\ index' = index
     ELSE IF Len(MissingColumns(argRows)) > 0
     THEN /\ validation' = [isValid |-> FALSE,
                            errors |-> <<Message("Missing required columns", "", <<>>, 0,
                                                 MissingColumns(argRows))>>,
                            warnings |-> <<>>]
          /\ pc' = "Validated"
          /\ index' = index
     ELSE /\ validation' = validation
          /\ pc' = "Rows"
          /\ index' = 1
  /\ UNCHANGED <<argRows, argWeights, processedData, countrySet,
                 standardizedData, result, trace>>
  /\ UNCHANGED appVars

\* faulty variant: the country is registered only when its record is pushed
ValidateRow_RegisterLate ==
  /\ pc = "Rows"
  /\ index <= Len(argRows.rows)
  /\ LET row == argRows.rows[index]
         mappedRow == MappedRow(row)
     IN  IF IsEmptyRow(row)
         THEN UNCHANGED <<validation, processedData, countrySet>>
         ELSE IF InvalidCountry(mappedRow)
         THEN /\ validation' =
                   [validation EXCEPT !.errors =
                      Append(@, Message("Invalid country name", "", <<>>, index, <<>>))]
              /\ UNCHANGED <<processedData, countrySet>>
         ELSE IF IsDuplicate(mappedRow, countrySet)
         THEN /\ validation' =
                   [validation EXCEPT !.warnings =
                      Append(@, Message("Duplicate country", "", mappedRow.country.s,
                                        0, <<>>))]
              /\ UNCHANGED <<processedData, countrySet>>
         ELSE /\ countrySet' = IF HasInvalidScore(mappedRow) THEN countrySet
                               ELSE countrySet \cup {mappedRow.country.s}
              /\ validation' =
                   [validation EXCEPT !.errors = @ \o SectorErrors(mappedRow),
                                      !.warnings = @ \o SectorWarnings(mappedRow)]
              /\ processedData' =
                   IF HasInvalidScore(mappedRow) THEN processedData
                   ELSE Push(processedData, CountryData(mappedRow))
  /\ index' = index + 1
  /\ UNCHANGED <<argRows, argWeights, pc, standardizedData, result, trace>>
  /\ UNCHANGED appVars

\* the forEach callback on rawData[index - 1]
ValidateRow ==
  /\ pc = "Rows"
  /\ index <= Len(argRows.rows)
  /\ LET row == argRows.rows[index]
         mappedRow == MappedRow(row)
     IN  IF IsEmptyRow(row)
         THEN UNCHANGED <<validation, processedData, countrySet>>
         ELSE IF InvalidCountry(mappedRow)
         THEN /\ validation' =
                   [validation EXCEPT !.errors =
                      Append(@, Message("Invalid country name", "", <<>>, index, <<>>))]
              /\ UNCHANGED <<processedData, countrySet>>
         ELSE IF IsDuplicate(mappedRow, countrySet)
         THEN /\ validation' =
                   [validation EXCEPT !.warnings =
                      Append(@, Message("Duplicate country", "", mappedRow.country.s,
                                        0, <<>>))]
              /\ UNCHANGED <<processedData, countrySet>>
         ELSE /\ countrySet' = countrySet \cup {mappedRow.country.s}
              /\ validation' =
                   [validation EXCEPT !.errors = @ \o SectorErrors(mappedRow),
                                      !.warnings = @ \o SectorWarnings(mappedRow)]
              /\ processedData' =
                   IF HasInvalidScore(mappedRow) THEN processedData
                   ELSE Push(processedData, CountryData(mappedRow))
  /\ index' = index + 1
  /\ UNCHANGED <<argRows, argWeights, pc, standardizedData, result, trace>>
  /\ UNCHANGED appVars

\* faulty variant: isValid is not updated from the errors
ValidateEnd_KeepValid ==
  /\ pc = "Rows"
  /\ index > Len(argRows.rows)
  /\ pc' = "Validated"
  /\ UNCHANGED <<argRows, argWeights, index, validation, processedData,
                 countrySet, standardizedData, result, trace>>
  /\ UNCHANGED appVars

\* after the forEach: isValid follows the errors, the validator returns
ValidateEnd ==
  /\ pc = "Rows"
  /\ index > Len(argRows.rows)
  /\ validation' = [validation EXCEPT
                      !.isValid = IF Len(validation.errors) > 0 THEN FALSE ELSE @]
  /\ pc' = "Validated"
  /\ UNCHANGED <<argRows, argWeights, index, processedData, countrySet,
                 standardizedData, result, trace>>
  /\ UNCHANGED appVars

\* faulty variant: an invalid report does not stop the call
ShortCircuit_Continue ==
  /\ pc = "Validated"
  /\ ~validation.isValid
  /\ standardizedData' = standardizeCountryNames(processedData)
  /\ trace' = Append(trace, "Normalizer")
  /\ pc' = "Scoring"
  /\ UNCHANGED <<argRows, argWeights, index, validation, processedData,
                 countrySet, result>>
  /\ UNCHANGED appVars

\* if (!validation.isValid) return []
ShortCircuit ==
  /\ pc = "Validated"
  /\ ~validation.isValid
  /\ result' = <<>>
  /\ pc' = "Returned"
  /\ UNCHANGED <<argRows, argWeights, index, validation, processedData,
                 countrySet, standardizedData, trace>>
  /\ UNCHANGED appVars

\* faulty variant: the official name is also written into the caller's row
Normalize_InPlace ==
  /\ pc = "Validated"
  /\ validation.isValid
  /\ standardizedData' = standardizeCountryNames(processedData)
  /\ argRows' =
       [argRows EXCEPT !.rows =
          [i \in 1..Len(@) |->
             IF "Country" \in Keys(@[i])
             THEN [@[i] EXCEPT !.cells["Country"] = StandardName(@)]
             ELSE @[i]]]
  /\ trace' = Append(trace, "Normalizer")
  /\ pc' = "Scoring"
  /\ UNCHANGED <<argWeights, index, validation, processedData, countrySet, result>>
  /\ UNCHANGED appVars

\* const standardizedData = standardizeCountryNames(validatedData)
Normalize ==
  /\ pc = "Validated"
  /\ validation.isValid
  /\ standardizedData' = standardizeCountryNames(processedData)
  /\ trace' = Append(trace, "Normalizer")
  /\ pc' = "Scoring"
  /\ UNCHANGED <<argRows, argWeights, index, validation, processedData,
                 countrySet, result>>
  /\ UNCHANGED appVars

\* faulty variant: records whose total exceeds 1.0 are left out of the output
Score_DropAboveOne ==
  /\ pc = "Scoring"
  /\ trace' = Append(trace, "Scorer")
  /\ IF ScoringThrows(standardizedData, argWeights)
     THEN /\ pc' = "Thrown"
          /\ result' = result
     ELSE /\ pc' = "Returned"
          /\ result' =
               LET scored == [i \in 1..Len(standardizedData) |->
                                ScoreCountry(standardizedData[i], argWeights)]
                   Kept(record) == ~(IsFinite(record.totalScore)
                                       /\ record.totalScore.n > 20)
               IN  SelectSeq(scored, Kept)
  /\ UNCHANGED <<argRows, argWeights, index, validation, processedData,
                 countrySet, standardizedData>>
  /\ UNCHANGED appVars

\* return standardizedData.map(...)
Score ==
  /\ pc = "Scoring"
  /\ trace' = Append(trace, "Scorer")
  /\ IF ScoringThrows(standardizedData, argWeights)
     THEN /\ pc' = "Thrown"
          /\ result' = result
     ELSE /\ pc' = "Returned"
          /\ result' = [i \in 1..Len(standardizedData) |->
                          ScoreCountry(standardizedData[i], argWeights)]
  /\ UNCHANGED <<argRows, argWeights, index, validation, processedData,
                 countrySet, standardizedData>>
  /\ UNCHANGED appVars

\* faulty variant: the exception leaves processExcelData
Catch_Rethrow ==
  /\ pc = "Thrown"
  /\ pc' = "Raised"
  /\ UNCHANGED <<argRows, argWeights, index, validation, processedData,
                 countrySet, standardizedData, result, trace>>
  /\ UNCHANGED appVars

\* catch (error) { return [] }
Catch ==
  /\ pc = "Thrown"
  /\ result' = <<>>
  /\ trace' = Append(trace, "Catch")
  /\ pc' = "Returned"
  /\ UNCHANGED <<argRows, argWeights, index, validation, processedData,
                 countrySet, standardizedData>>
  /\ UNCHANGED appVars

\* a caller outside App: any rows, any weights
processExcelData ==
  /\ pc = "Empty"
  /\ handler = "none"
  /\ \E rows \in ListPool, weights \in WeightsPool : Enter(rows, weights)
  /\ UNCHANGED appVars

-----------------------------------------------------------------------------
\* data is still the initial useState value: no call has produced it
NoCall == [rows |-> <<>>, weights |-> NullWeights]

Init ==
  /\ argRows = NullList
  /\ argWeights = NullWeights
  /\ pc = "Empty"
  /\ index = 0
  /\ validation = NewValidation
  /\ processedData = <<>>
  /\ countrySet = {}
  /\ standardizedData = <<>>
  /\ result = <<>>
  /\ trace = <<>>
  /\ rawData = <<>>
  /\ data = <<>>
  /\ sectorWeights = defaultSectorWeights
  /\ error = "null"
  /\ readers = <<>>
  /\ effectDue = "no"
  /\ handler = "none"
  /\ changes = 0
  /\ shown = NoCall
  /\ selectedSector = "null"
  /\ selectedCountry = "null"
  /\ past = <<>>

Next ==
  \/ processExcelData
  \/ ValidateHeader
  \/ ValidateRow
  \/ ValidateEnd
  \/ ShortCircuit
  \/ Normalize
  \/ Score
  \/ Catch

Spec == Init /\ [][Next]_vars

-----------------------------------------------------------------------------
(* A caller that calls processExcelData again and again *)

\* the ai slider at 0.5, the other weights at their defaults
AiHalfWeights == [defaultSectorWeights EXCEPT !.w["ai"] = Num(10)]

\* the arguments of the repeated calls
CallRows ==
  {List(<<BaseRow>>),
   List(<<BaseRow, Row(Str(s_Chad), Num(2), Num(1))>>),
   List(<<Row(Str(s_USA), Num(2), Num(1)), BaseRow>>),
   List(<<Row(Str(s_Chad), Num(-1), Num(1))>>)}
CallWeights == {defaultSectorWeights, AiHalfWeights, NullWeights}

\* one more call of processExcelData(rows, weights)
CallAgain ==
  /\ pc = "Empty"
  /\ handler = "none"
  /\ Len(past) < MaxCalls
  /\ \E rows \in CallRows, weights \in CallWeights : Enter(rows, weights)
  /\ UNCHANGED appVars

\* the call returns to its caller, who keeps the output; nothing of the
\* module is reset: what the next call starts from is up to its own code
ReturnToCaller ==
  /\ pc = "Returned"
  /\ handler = "none"
  /\ past' = Append(past, [rows |-> argRows, weights |-> argWeights, out |-> result])
  /\ pc' = "Empty"
  /\ UNCHANGED <<argRows, argWeights, index, validation, processedData,
                 countrySet, standardizedData, result, trace>>
  /\ UNCHANGED <<rawData, data, sectorWeights, error, readers, effectDue,
                 handler, changes, shown, selectedSector, selectedCountry>>

NextCalls ==
  \/ CallAgain
  \/ ReturnToCaller
  \/ ValidateHeader
  \/ ValidateRow
  \/ ValidateEnd
  \/ ShortCircuit
  \/ Normalize
  \/ Score
  \/ Catch

SpecCalls == Init /\ [][NextCalls]_vars

\* C17: a call that has returned gave the output that every earlier call with
\* the same rows and the same weights gave, whatever calls came in between.
C17_SameInputsSameOutput ==
  pc = "Returned" =>
    \A k \in 1..Len(past) :
      (past[k].rows = argRows /\ past[k].weights = argWeights) =>
        past[k].out = result

\* the third call repeats the first, after a call with other rows and weights
C17_Witness ==
  /\ pc = "Returned"
  /\ Len(past) = 2
  /\ past[1].rows = argRows /\ past[1].weights = argWeights
  /\ past[2].rows # argRows /\ past[2].weights # argWeights
  /\ Len(past[2].out) = 2
  /\ Len(result) = 1
  /\ result = past[1].out

\* the sectors on which two weight objects differ
ChangedSectors(w1, w2) ==
  IF w1.t = "object" /\ w2.t = "object" /\ DOMAIN w1.w = Sectors /\ DOMAIN w2.w = Sectors
  THEN {sector \in Sectors : w1.w[sector] # w2.w[sector]}
  ELSE Sectors

\* the earlier calls that scored the same rows with one weight set otherwise
RescoredFrom ==
  {k \in 1..Len(past) :
     /\ past[k].rows = argRows
     /\ Cardinality(ChangedSectors(past[k].weights, argWeights)) = 1}

\* C18 as stated: rescoring the same rows with exactly one weight changed
\* leaves the sectorScores of every output record as they were; the two
\* outputs differ in totalScore only.
C18_OnlyTotalScoreDiffers ==
  pc = "Returned" =>
    \A k \in RescoredFrom :
      /\ Len(result) = Len(past[k].out)
      /\ \A i \in 1..Len(result) :
           [past[k].out[i] EXCEPT !.totalScore = result[i].totalScore] = result[i]

\* C18 amended: rescoring the same rows with exactly one weight changed
\* returns the same records in the same order with the country, the six raw
\* sector fields and the sectorScores of the five other sectors unaltered;
\* totalScore and the sectorScores entry of the changed sector, which is the
\* raw score times the new weight, are what may differ.
C18_ChangedSectorAndTotalDiffer ==
  pc = "Returned" =>
    \A k \in RescoredFrom :
      LET changed == CHOOSE sector \in ChangedSectors(past[k].weights, argWeights) : TRUE
      IN  /\ Len(result) = Len(past[k].out)
          /\ \A i \in 1..Len(result) :
               /\ [past[k].out[i] EXCEPT
                     !.totalScore = result[i].totalScore,
                     !.sectorScores[changed] = result[i].sectorScores[changed]]
                    = result[i]
               /\ result[i].sectorScores[changed] =
                    Times(ParseFloat(result[i][changed]), argWeights.w[changed])

\* two rows scored with ai at 0.2 and again with ai at 0.5: sectorScores.ai of
\* the first record went from 2 * 0.2 to 2 * 0.5
C18_Witness ==
  /\ pc = "Returned"
  /\ argWeights = AiHalfWeights
  /\ Len(result) = 2
  /\ \E k \in RescoredFrom :
       /\ past[k].weights = defaultSectorWeights
       /\ past[k].out[1].sectorScores["ai"] = Num(8)
       /\ result[1].sectorScores["ai"] = Num(20)
       /\ result[1].ai = Num(2)
       /\ past[k].out[1].sectorScores["space"] = result[1].sectorScores["space"]

-----------------------------------------------------------------------------
(* Properties of one call *)

AfterValidator == pc \in {"Validated", "Scoring", "Thrown", "Returned"}
Scored == pc = "Returned" /\ trace = <<"Validator", "Normalizer", "Scorer">>
HeaderFails(list) == NoData(list) \/ Len(MissingColumns(list)) > 0

\* the dot product of six finite scores and six finite weights
DotProduct(scores, weights) ==
    scores["ai"].n * weights.w["ai"].n
  + scores["quantum"].n * weights.w["quantum"].n
  + scores["semiconductors"].n * weights.w["semiconductors"].n
  + scores["biotech"].n * weights.w["biotech"].n
  + scores["space"].n * weights.w["space"].n
  + scores["fintech"].n * weights.w["fintech"].n

AllFinite(f) == \A x \in DOMAIN f : IsFinite(f[x])

\* C1: every record returned by processExcelData has totalScore equal to the
\* sum over the six sectors of the validator's raw score times weights[sector]:
\* the integer dot product when all twelve numbers are finite, and the same
\* sum in IEEE arithmetic (NaN, Infinity) otherwise.
C1_TotalScoreIsWeightedSum ==
  Scored =>
    /\ Len(result) = Len(processedData)
    /\ \A i \in 1..Len(result) :
         LET raw == processedData[i].sectorScores
         IN  /\ (DOMAIN argWeights.w = Sectors /\ AllFinite(raw) /\ AllFinite(argWeights.w))
                  => result[i].totalScore = Num(DotProduct(raw, argWeights))
             /\ result[i].totalScore =
                  SumFrom(Num(0), [j \in 1..Len(SECTOR_WEIGHTS) |->
                                     Times(raw[SECTOR_WEIGHTS[j]],
                                           WeightOf(argWeights, SECTOR_WEIGHTS[j]))])

\* two rows scored with the default weights (4, 2, 4, 4, 4, 2): the first
\* holds 1 everywhere, the second has the string "2" in its AI cell
C1_Witness ==
  /\ Scored
  /\ argWeights = defaultSectorWeights
  /\ Len(result) = 2
  /\ result[1].totalScore = Num(20)
  /\ result[2].ai = Str(<<"2">>)
  /\ result[2].totalScore = Num(24)

\* C2: no two records of the output of processExcelData have the same country.
C2_CountryUnique ==
  pc = "Returned" =>
    \A i, j \in 1..Len(result) : i # j => result[i].country # result[j].country

\* C3: on an empty row list, or a first row lacking a required column, the
\* validator returns no record, isValid = false and exactly one error, and
\* processes no row: no warning, no row visited, no country registered.
C3_FailFast ==
  (AfterValidator /\ HeaderFails(argRows)) =>
    /\ processedData = <<>>
    /\ ~validation.isValid
    /\ Len(validation.errors) = 1
    /\ validation.warnings = <<>>
    /\ index = 0
    /\ countrySet = {}

\* the first row lacks Quantum; the second would add two errors if visited
C3_Witness ==
  /\ pc = "Validated"
  /\ argRows = List(<<Without(BaseRow, "Quantum"),
                      Row(Str(s_Chad), Num(-1), Str(s_abc))>>)
  /\ validation.errors[1].columns = <<"Quantum">>

\* C4: the stages run in the order Validator, Normalizer, Scorer; an invalid
\* report returns [] with neither Normalizer nor Scorer run; otherwise the
\* call returns one scored record per validated record, in the validator's
\* order, the country replaced by its official name and nothing else of the
\* row changed (weights that are an object: null weights are C5's case).
C4_StageOrder ==
  /\ \E n \in 0..4 :
       trace = SubSeq(<<"Validator", "Normalizer", "Scorer", "Catch">>, 1, n)
  /\ pc = "Returned" =>
       IF ~validation.isValid
       THEN result = <<>> /\ trace = <<"Validator">> /\ standardizedData = <<>>
       ELSE /\ SubSeq(trace, 1, 3) = <<"Validator", "Normalizer", "Scorer">>
            /\ argWeights.t = "object" =>
                 /\ Len(result) = Len(processedData)
                 /\ \A i \in 1..Len(result) :
                      /\ result[i].country = StandardName(processedData[i].country)
                      /\ IsAlias(processedData[i].country.s) =>
                           result[i].country = Str(AliasOf(processedData[i].country.s))
                      /\ \A sector \in Sectors :
                           result[i][sector] = processedData[i][sector]

C4_Witness ==
  /\ Scored
  /\ Len(result) = 2
  /\ processedData[1].country = Str(s_USA)
  /\ result[1].country = Str(s_UnitedStatesofAmerica)
  /\ result[2].country = Str(s_Chad)

\* the stage actions of a call
Step ==
  ValidateHeader \/ ValidateRow \/ ValidateEnd \/ ShortCircuit \/ Normalize
  \/ Score \/ Catch

\* C5: processExcelData is total: whatever rawData and weights are (null
\* included), nothing is raised to the caller, an exception thrown inside is
\* caught, the validator's fail-fast checks and its return are never stuck,
\* what the call returns is a list, and a caught failure returns the empty list.
C5_Total ==
  /\ pc # "Raised"
  /\ pc = "Thrown" => ENABLED Catch
  /\ pc = "Validating" => ENABLED ValidateHeader
  /\ pc = "Validated" => (ENABLED ShortCircuit \/ ENABLED Normalize)
  /\ pc = "Rows" => (index <= Len(argRows.rows) \/ ENABLED ValidateEnd)
  /\ pc = "Returned" =>
       /\ DOMAIN result = 1..Len(result)
       /\ (Len(trace) = 4 => result = <<>>)

\* valid rows and null weights: the scoring map throws and the catch returns []
C5_Witness ==
  /\ pc = "Returned"
  /\ argWeights = NullWeights
  /\ validation.isValid
  /\ trace = <<"Validator", "Normalizer", "Scorer", "Catch">>
  /\ result = <<>>

\* the keys absent from a weights object
MissingKeys(weights) == Sectors \ DOMAIN weights.w

C8_ValidIffNoErrors ==
  AfterValidator => (validation.isValid <=> validation.errors = <<>>)

\* a "value > 1" warning and a duplicate warning, no error, isValid true
C8_Witness ==
  /\ pc = "Validated"
  /\ validation.isValid
  /\ Len(validation.warnings) = 2
  /\ validation.warnings[1].kind = "value > 1"
  /\ validation.warnings[2].kind = "Duplicate country"

\* the row the forEach callback is about to visit
AtRow == pc = "Rows" /\ index <= Len(argRows.rows)
CurrentRow == argRows.rows[index]

\* a row that has keys and a non-empty string in its Country cell
HasCountry(row) ==
  /\ row.t = "object"
  /\ Keys(row) # {}
  /\ Cell(row, "Country").t = "string"
  /\ Cell(row, "Country").s # <<>>

\* an earlier row of the batch carries the same country
SeenEarlier(row) ==
  \E j \in 1..(index - 1) :
    HasCountry(argRows.rows[j])
      /\ Cell(argRows.rows[j], "Country") = Cell(row, "Country")

\* C9: visiting a row whose country equals the country of an earlier row of
\* the batch adds exactly one warning (naming that country) and no error, and
\* leaves the records, the earlier row's record among them, as they were.
C9_DuplicateDropped ==
  [][(AtRow /\ HasCountry(CurrentRow) /\ SeenEarlier(CurrentRow)) =>
       /\ validation'.warnings =
            Append(validation.warnings,
                   Message("Duplicate country", "", Cell(CurrentRow, "Country").s,
                           0, <<>>))
       /\ validation'.errors = validation.errors
       /\ processedData' = processedData]_vars

\* the second row repeats Chad with another AI score: one record, one warning
C9_Witness ==
  /\ pc = "Rows"
  /\ index = 3
  /\ argRows = List(<<BaseRow, Row(Str(s_Chad), Num(2), Num(1))>>)
  /\ Len(processedData) = 1
  /\ processedData[1].ai = Num(1)
  /\ validation.errors = <<>>
  /\ Len(validation.warnings) = 1
  /\ validation.warnings[1].kind = "Duplicate country"

\* the sectors of a row whose parsed value is negative / is not a number
NegativeSectors(row) ==
  {sector \in Sectors : Negative(ParseFloat(Cell(row, COLUMN_MAPPINGS(sector))))}
NaNSectors(row) ==
  {sector \in Sectors : IsNaN(ParseFloat(Cell(row, COLUMN_MAPPINGS(sector))))}

\* C10: visiting a row with a valid country not seen before, a negative value
\* in one sector field and numbers >= 0 in the other five, adds exactly one
\* error, which names that sector and that country, and adds no record.
C10_NegativeRejected ==
  [][(/\ AtRow /\ HasCountry(CurrentRow) /\ ~SeenEarlier(CurrentRow)
      /\ Cardinality(NegativeSectors(CurrentRow)) = 1
      /\ NaNSectors(CurrentRow) = {}) =>
       /\ validation'.errors =
            Append(validation.errors,
                   Message("Negative value",
                           CHOOSE sector \in NegativeSectors(CurrentRow) : TRUE,
                           Cell(CurrentRow, "Country").s, 0, <<>>))
       /\ processedData' = processedData]_vars

\* a first valid row (USA), then Chad with Fintech = -1: one error naming fintech
C10_Witness ==
  /\ pc = "Rows"
  /\ index = 3
  /\ argRows.rows[2] = Row(Str(s_Chad), Num(1), Num(-1))
  /\ argRows.rows[1] = Row(Str(s_USA), Num(1), Num(1))
  /\ Len(processedData) = 1
  /\ validation.errors = <<Message("Negative value", "fintech", s_Chad, 0, <<>>)>>

\* the sectors of a row whose parsed value is a number >= 0 and exceeds 1
BigSectors(row) ==
  {sector \in Sectors \ (NegativeSectors(row) \cup NaNSectors(row)) :
     GreaterOne(ParseFloat(Cell(row, COLUMN_MAPPINGS(sector))))}

\* C11: visiting a row with a valid country not seen before adds no record if
\* and only if one of its six sector fields parses to NaN or to a negative
\* number; otherwise exactly one record, for that row, is appended, no error
\* is added and each sector value above 1 adds one warning and nothing else.
C11_ExcludedIffInvalidSector ==
  [][(AtRow /\ HasCountry(CurrentRow) /\ ~SeenEarlier(CurrentRow)) =>
       LET bad == NegativeSectors(CurrentRow) \cup NaNSectors(CurrentRow)
       IN  /\ (processedData' = processedData) <=> (bad # {})
           /\ bad = {} =>
                /\ Len(processedData') = Len(processedData) + 1
                /\ SubSeq(processedData', 1, Len(processedData)) = processedData
                /\ \A sector \in Sectors :
                     processedData'[Len(processedData')][sector] =
                       Cell(CurrentRow, COLUMN_MAPPINGS(sector))
                /\ validation'.errors = validation.errors
                /\ Len(validation'.warnings) =
                     Len(validation.warnings) + Cardinality(BigSectors(CurrentRow))
                /\ \A k \in (Len(validation.warnings) + 1)..Len(validation'.warnings) :
                     /\ validation'.warnings[k].kind = "value > 1"
                     /\ validation'.warnings[k].sector \in BigSectors(CurrentRow)]_vars

\* Chad with AI = 2 after a first valid row: retained, one warning, no error
C11_Witness ==
  /\ pc = "Rows"
  /\ index = 3
  /\ argRows.rows[1] = Row(Str(s_USA), Num(1), Num(1))
  /\ argRows.rows[2] = Row(Str(s_Chad), Num(2), Num(1))
  /\ Len(processedData) = 2
  /\ processedData[2].ai = Num(2)
  /\ validation.errors = <<>>
  /\ validation.warnings = <<Message("value > 1", "ai", s_Chad, 0, <<>>)>>

\* C12: every record the validator has emitted carries, for each of the six
\* sector keys, a parsed score that is a finite number >= 0.
C12_ScoresFiniteNonNegative ==
  \A i \in 1..Len(processedData) :
    /\ DOMAIN processedData[i].sectorScores = Sectors
    /\ \A sector \in Sectors :
         /\ IsFinite(processedData[i].sectorScores[sector])
         /\ processedData[i].sectorScores[sector].n >= 0

\* a trimmed, non-empty string
TrimmedName(v) == v.t = "string" /\ v.s # <<>> /\ Trim(v.s) = v.s

\* C13: every record emitted by the validator, and every record returned by
\* processExcelData, has a country that is a non-empty string without leading
\* or trailing whitespace.
C13_CountryNonEmptyTrimmed ==
  /\ \A i \in 1..Len(processedData) : TrimmedName(processedData[i].country)
  /\ pc = "Returned" => \A i \in 1..Len(result) : TrimmedName(result[i].country)

\* the record is the one built from this row: its six cells, its trimmed country
Corresponds(record, row) ==
  /\ row.t = "object"
  /\ Cell(row, "Country").t = "string"
  /\ record.country = Str(Trim(Cell(row, "Country").s))
  /\ \A sector \in Sectors : record[sector] = Cell(row, COLUMN_MAPPINGS(sector))

\* C14: the records of the validator are a subsequence of the rows visited so
\* far: there is a strictly increasing assignment of one input row to each
\* record, the record being the one built from that row.
C14_RecordsAreSubsequence ==
  pc \in {"Rows", "Validated"} =>
    /\ Len(processedData) <= index
    /\ \E f \in [1..Len(processedData) -> 1..Len(argRows.rows)] :
         /\ \A i \in 1..Len(processedData) :
              f[i] < index /\ Corresponds(processedData[i], argRows.rows[f[i]])
         /\ \A i, j \in 1..Len(processedData) : i < j => f[i] < f[j]

\* USA then Chad, both retained, in the order of the input
C14_Witness ==
  /\ pc = "Validated"
  /\ argRows.rows = <<Row(Str(s_USA), Num(1), Num(1)), Row(Str(s_Chad), Num(2), Num(1))>>
  /\ Len(processedData) = 2
  /\ processedData[1].country = Str(s_USA)
  /\ processedData[2].country = Str(s_Chad)

\* C15: standardizeCountryNames applied twice gives what it gives applied
\* once, on every record list the call holds (the validator's records, the
\* normalized records, the scored records); and no official name of the alias
\* table is an alias key.
C15_NormalizeIdempotent ==
  /\ \A i \in 1..Len(COUNTRY_NAME_MAPPINGS) :
       ~IsAlias(AliasOf(COUNTRY_NAME_MAPPINGS[i][1]))
  /\ \A x \in {processedData, standardizedData, result} :
       standardizeCountryNames(standardizeCountryNames(x)) =
         standardizeCountryNames(x)

\* USA became United States of America, and constructor an inherited function
C15_Witness ==
  /\ pc = "Scoring"
  /\ Len(standardizedData) = 2
  /\ processedData[1].country = Str(s_USA)
  /\ standardizedData[1].country = Str(s_UnitedStatesofAmerica)
  /\ processedData[2].country = Str(s_constructor)
  /\ standardizedData[2].country.t = "function"

\* C16: the normalized list has the length and order of the validator's list
\* and differs from it in the country field only: an alias key has become its
\* official name, every other country is unchanged.
C16_OnlyAliasesChange ==
  pc = "Scoring" =>
    /\ Len(standardizedData) = Len(processedData)
    /\ \A i \in 1..Len(standardizedData) :
         /\ [standardizedData[i] EXCEPT !.country = processedData[i].country] =
              processedData[i]
         /\ standardizedData[i].country =
              IF IsAlias(processedData[i].country.s)
              THEN Str(AliasOf(processedData[i].country.s))
              ELSE processedData[i].country

\* the list without its rows that have no keys
WithoutEmptyRows(list) ==
  LET Kept(row) == ~IsEmptyRow(row)
  IN  List(SelectSeq(list.rows, Kept))

\* a row that passes every check and draws no warning
CleanRow(row) ==
  /\ HasCountry(row)
  /\ NegativeSectors(row) \cup NaNSectors(row) \cup BigSectors(row) = {}

\* C19: a row with no keys, wherever it stands in the input, adds no record,
\* no error and no warning and leaves the processing of the other rows alone:
\* the batch fails the column check only if it fails it without its empty
\* rows, and when the other rows are clean and carry different countries the
\* validator ends with no error, no warning and one record for each of them.
C19_EmptyRowSilent ==
  (pc = "Validated" /\ argRows.t = "array") =>
    LET others == WithoutEmptyRows(argRows)
    IN  /\ HeaderFails(argRows) => HeaderFails(others)
        /\ (/\ \A j \in 1..Len(others.rows) : CleanRow(others.rows[j])
            /\ \A j, k \in 1..Len(others.rows) :
                 j # k => Cell(others.rows[j], "Country") # Cell(others.rows[k], "Country"))
           => /\ Len(validation.errors) = (IF others.rows = <<>> THEN 1 ELSE 0)
              /\ validation.warnings = <<>>
              /\ Len(processedData) = Len(others.rows)

\* a row with keys whose Country cell is missing or is not a string
BadCountry(row) == ~IsEmptyRow(row) /\ Cell(row, "Country").t # "string"

\* C20: a row with keys whose Country is missing or not a string adds exactly
\* one error and nothing else: when the forEach visits it, the error names
\* its row number, and no warning, no record and no seen country is added
\* (its sector fields are not looked at); when it is the first row and has no
\* Country key, the one error is the missing-columns error and the validator
\* returns at once.
C20_BadCountryOneError ==
  [][/\ (AtRow /\ BadCountry(CurrentRow)) =>
          /\ validation'.errors =
               Append(validation.errors,
                      Message("Invalid country name", "", <<>>, index, <<>>))
          /\ validation'.warnings = validation.warnings
          /\ processedData' = processedData
          /\ countrySet' = countrySet
     /\ (/\ pc = "Validating" /\ argRows.rows # <<>>
         /\ BadCountry(argRows.rows[1])
         /\ "Country" \notin Keys(argRows.rows[1])) =>
          /\ Len(validation'.errors) = Len(validation.errors) + 1
          /\ validation'.errors[Len(validation'.errors)].kind = "Missing required columns"
          /\ validation'.warnings = validation.warnings
          /\ processedData' = processedData
          /\ pc' = "Validated"]_vars

\* after Chad, a row with Country 5, AI -1 and Fintech 2: one error, for row 2
C20_Witness ==
  /\ pc = "Rows"
  /\ index = 3
  /\ argRows.rows = <<BaseRow, Row(Num(5), Num(-1), Num(2))>>
  /\ validation.errors = <<Message("Invalid country name", "", <<>>, 2, <<>>)>>
  /\ validation.warnings = <<>>
  /\ Len(processedData) = 1

\* C21: no step of a call changes the caller's row list, its rows or the
\* weights object: from the entry of processExcelData to its return, and
\* after it, the arguments are what the caller passed.
C21_InputsUnchanged ==
  [][pc # "Empty" => (argRows' = argRows /\ argWeights' = argWeights)]_vars

\* the output says United States of America, the caller's row still says USA
C21_Witness ==
  /\ pc = "Returned"
  /\ Len(result) = 2
  /\ result[1].country = Str(s_UnitedStatesofAmerica)
  /\ Cell(argRows.rows[1], "Country") = Str(s_USA)
  /\ result[2].sectorScores["ai"] # Cell(argRows.rows[2], "AI")
  /\ argWeights = DistinctWeights

\* C23: in every record returned by processExcelData, totalScore is the sum
\* of the six emitted sectorScores: their integer sum when all six are
\* finite, and the same IEEE sum (NaN, Infinity) otherwise.
C23_TotalIsSumOfEmitted ==
  pc = "Returned" =>
    \A i \in 1..Len(result) :
      LET emitted == result[i].sectorScores
      IN  /\ DOMAIN emitted = Sectors
          /\ result[i].totalScore =
               SumFrom(Num(0), [j \in 1..Len(SECTOR_WEIGHTS) |->
                                  emitted[SECTOR_WEIGHTS[j]]])
          /\ AllFinite(emitted) =>
               result[i].totalScore =
                 Num(emitted["ai"].n + emitted["quantum"].n
                     + emitted["semiconductors"].n + emitted["biotech"].n
                     + emitted["space"].n + emitted["fintech"].n)

\* weights summing to 1.0 (20 units): Chad with AI = 2 gives 8 + 2 + 4 + 4 + 4 + 2
C23_Witness ==
  /\ Scored
  /\ argWeights = defaultSectorWeights
  /\ Len(result) = 2
  /\ result[1].sectorScores =
       [sector \in Sectors |->
          CASE sector = "ai" -> Num(8)
            [] sector \in {"quantum", "fintech"} -> Num(2)
            [] OTHER -> Num(4)]
  /\ result[1].totalScore = Num(24)
  /\ result[2].totalScore = Num(20)

\* C24: when the validator has returned isValid = true, its record list is
\* not empty and its first record is the one built from the first input row;
\* and a call that returns without an exception returns the empty list
\* exactly when the validation report holds at least one error.
C24_ValidHasRecords ==
  /\ (AfterValidator /\ validation.isValid) =>
       /\ Len(processedData) >= 1
       /\ Corresponds(processedData[1], argRows.rows[1])
  /\ (pc = "Returned" /\ Len(trace) < 4) =>
       (result = <<>> <=> Len(validation.errors) > 0)

\* Chad twice: the second row is dropped with a warning, the report is valid
\* and the one record of the first row is returned
C24_Witness ==
  /\ pc = "Returned"
  /\ argRows.rows = <<BaseRow, BaseRow>>
  /\ argWeights = defaultSectorWeights
  /\ validation.isValid
  /\ Len(validation.warnings) = 1
  /\ Len(result) = 1

\* an earlier row carries the same country and has a sector value that is
\* NaN or negative
RejectedEarlier(row) ==
  \E j \in 1..(index - 1) :
    /\ HasCountry(argRows.rows[j])
    /\ Cell(argRows.rows[j], "Country") = Cell(row, "Country")
    /\ NegativeSectors(argRows.rows[j]) \cup NaNSectors(argRows.rows[j]) # {}

\* C28: a row with a valid new country registers it as seen whether or not
\* its sector values pass; and a later row carrying the country of a row
\* rejected for a sector value is dropped as a duplicate: one warning, no
\* error, no record.
C28_RegisteredBeforeSectors ==
  [][/\ (AtRow /\ HasCountry(CurrentRow) /\ ~SeenEarlier(CurrentRow)) =>
          countrySet' = countrySet \cup {Cell(CurrentRow, "Country").s}
     /\ (AtRow /\ HasCountry(CurrentRow) /\ RejectedEarlier(CurrentRow)) =>
          /\ validation'.warnings =
               Append(validation.warnings,
                      Message("Duplicate country", "",
                              Cell(CurrentRow, "Country").s, 0, <<>>))
          /\ validation'.errors = validation.errors
          /\ processedData' = processedData
          /\ countrySet' = countrySet]_vars

\* Chad with AI = -1, then a flawless Chad: one error, one warning, no record
C28_Witness ==
  /\ pc = "Validated"
  /\ argRows.rows = <<Row(Str(s_Chad), Num(-1), Num(1)), BaseRow>>
  /\ processedData = <<>>
  /\ Len(validation.errors) = 1
  /\ validation.errors[1].kind = "Negative value"
  /\ Len(validation.warnings) = 1
  /\ validation.warnings[1].kind = "Duplicate country"

\* the messages of one kind among those a step has appended
Appended(before, after, kinds) ==
  {k \in (Len(before) + 1)..Len(after) : after[k].kind \in kinds}

\* C29: a row that reaches the sector loop adds one error for each of its
\* sector fields that is NaN or negative, naming that sector, and one warning
\* for each field above 1, whether or not the row is then excluded: all six
\* fields are examined.
C29_OneMessagePerField ==
  [][(AtRow /\ HasCountry(CurrentRow) /\ ~SeenEarlier(CurrentRow)) =>
       LET bad == NegativeSectors(CurrentRow) \cup NaNSectors(CurrentRow)
           big == BigSectors(CurrentRow)
       IN  /\ SubSeq(validation'.errors, 1, Len(validation.errors)) = validation.errors
           /\ SubSeq(validation'.warnings, 1, Len(validation.warnings)) = validation.warnings
           /\ Len(validation'.errors) = Len(validation.errors) + Cardinality(bad)
           /\ Len(validation'.warnings) = Len(validation.warnings) + Cardinality(big)
           /\ \A sector \in NaNSectors(CurrentRow) :
                \E k \in Appended(validation.errors, validation'.errors, {"Invalid value"}) :
                  validation'.errors[k].sector = sector
           /\ \A sector \in NegativeSectors(CurrentRow) :
                \E k \in Appended(validation.errors, validation'.errors, {"Negative value"}) :
                  validation'.errors[k].sector = sector
           /\ \A sector \in big :
                \E k \in Appended(validation.warnings, validation'.warnings, {"value > 1"}) :
                  validation'.warnings[k].sector = sector]_vars

\* Chad with AI = 2 and Fintech = "abc": excluded with one error for fintech,
\* and the warning for ai is there all the same
C29_Witness ==
  /\ pc = "Rows"
  /\ index = 2
  /\ argRows.rows[1] = Row(Str(s_Chad), Num(2), Str(s_abc))
  /\ processedData = <<>>
  /\ validation.errors = <<Message("Invalid value", "fintech", s_Chad, 0, <<>>)>>
  /\ validation.warnings = <<Message("value > 1", "ai", s_Chad, 0, <<>>)>>

-----------------------------------------------------------------------------
(* The App component *)
(* A file is what the sheet-reading code of onload makes of it: the jsonData *)
(* rows, or a failure of XLSX.read.  State updates made by a callback are    *)
(* applied together when it ends, and the effect of a render runs before     *)
(* the next callback.                                                        *)

File(rows) == [ok |-> TRUE, rows |-> rows]
UnreadableFile == [ok |-> FALSE, rows |-> <<>>]

FilePool ==
  {File(<<BaseRow>>),
   File(<<Row(Str(s_USA), Num(2), Num(1)), BaseRow>>),
   File(<<Row(Str(s_Chad), Num(-1), Num(1))>>),
   File(<<>>),
   UnreadableFile}

\* the sliders moved here, and the position they are moved to (0.5)
SliderSectors == {"ai", "fintech"}
SliderPool == {Num(10)}

Idle == handler = "none" /\ pc = "Empty"

\* the arguments of the call that has returned
ThisCall == [rows |-> argRows.rows, weights |-> argWeights]

RemoveAt(seq, i) == SubSeq(seq, 1, i - 1) \o SubSeq(seq, i + 1, Len(seq))

\* the call frame of processExcelData is gone
Leave ==
  /\ argRows' = NullList
  /\ argWeights' = NullWeights
  /\ pc' = "Empty"
  /\ index' = 0
  /\ validation' = NewValidation
  /\ processedData' = <<>>
  /\ countrySet' = {}
  /\ standardizedData' = <<>>
  /\ result' = <<>>
  /\ trace' = <<>>

\* onDrop: a FileReader is started; its onload closes over sectorWeights.
\* The drop zone is rendered only while data is empty.
onDrop(file) ==
  /\ Idle
  /\ effectDue = "no"
  /\ Len(data) = 0
  /\ Len(readers) < MaxReaders
  /\ readers' = Append(readers, [file |-> file, weights |-> sectorWeights])
  /\ UNCHANGED <<rawData, data, sectorWeights, error, effectDue, handler, changes, shown, selectedSector,
                 selectedCountry, past>>
  /\ UNCHANGED pipeVars

\* reader.onload up to the call of processExcelData (or the catch of a
\* workbook that cannot be read)
onload(i) ==
  /\ Idle
  /\ effectDue = "no"
  /\ i \in 1..Len(readers)
  /\ readers' = RemoveAt(readers, i)
  /\ IF readers[i].file.ok
     THEN /\ rawData' = readers[i].file.rows
          /\ Enter(List(readers[i].file.rows), readers[i].weights)
          /\ handler' = "onload"
          /\ error' = error
     ELSE /\ error' = "Error reading file. Please ensure it is a valid Excel file"
          /\ UNCHANGED <<rawData, handler>>
          /\ UNCHANGED pipeVars
  /\ UNCHANGED <<data, sectorWeights, effectDue, changes, shown, selectedSector,
                 selectedCountry, past>>

\* faulty variant: the records of the new file are added to those shown
onloadReturn_Append ==
  /\ handler = "onload"
  /\ pc = "Returned"
  /\ IF Len(result) = 0
     THEN /\ error' = "Failed to process data"
          /\ data' = data
          /\ shown' = shown
     ELSE /\ data' = data \o result
          /\ shown' = ThisCall
          /\ error' = "null"
  /\ effectDue' = "rawData"
  /\ handler' = "none"
  /\ Leave
  /\ UNCHANGED <<rawData, sectorWeights, readers, changes, selectedSector,
                 selectedCountry, past>>

\* reader.onload after processExcelData returned
onloadReturn ==
  /\ handler = "onload"
  /\ pc = "Returned"
  /\ IF Len(result) = 0
     THEN /\ error' = "Failed to process data"
          /\ data' = data
          /\ shown' = shown
     ELSE /\ data' = result
          /\ shown' = ThisCall
          /\ error' = "null"
  /\ effectDue' = "rawData"
  /\ handler' = "none"
  /\ Leave
  /\ UNCHANGED <<rawData, sectorWeights, readers, changes, selectedSector,
                 selectedCountry, past>>

\* reader.onerror
onerror(i) ==
  /\ Idle
  /\ effectDue = "no"
  /\ i \in 1..Len(readers)
  /\ readers' = RemoveAt(readers, i)
  /\ error' = "Error reading file. Please try again."
  /\ UNCHANGED <<rawData, data, sectorWeights, effectDue, handler, changes, shown, selectedSector,
                 selectedCountry, past>>
  /\ UNCHANGED pipeVars

\* faulty variant: the effect depends on sectorWeights alone
Effect_WeightsOnly ==
  /\ Idle
  /\ effectDue # "no"
  /\ IF Len(rawData) > 0 /\ effectDue = "sectorWeights"
     THEN /\ Enter(List(rawData), sectorWeights)
          /\ handler' = "effect"
          /\ effectDue' = effectDue
     ELSE /\ effectDue' = "no"
          /\ handler' = handler
          /\ UNCHANGED pipeVars
  /\ UNCHANGED <<rawData, data, sectorWeights, error, readers, changes, shown, selectedSector,
                 selectedCountry, past>>

\* faulty variant: the effect rescores the cached records from the Scorer on
Effect_FromScoring ==
  /\ Idle
  /\ effectDue # "no"
  /\ IF Len(rawData) > 0
     THEN /\ argRows' = List(rawData)
          /\ argWeights' = sectorWeights
          /\ pc' = "Scoring"
          /\ standardizedData' = data
          /\ UNCHANGED <<index, validation, processedData, countrySet, result, trace>>
          /\ handler' = "effect"
          /\ effectDue' = effectDue
     ELSE /\ effectDue' = "no"
          /\ handler' = handler
          /\ UNCHANGED pipeVars
  /\ UNCHANGED <<rawData, data, sectorWeights, error, readers, changes, shown, selectedSector,
                 selectedCountry, past>>

\* useEffect(..., [sectorWeights, rawData]) up to the call of processExcelData
Effect ==
  /\ Idle
  /\ effectDue # "no"
  /\ IF Len(rawData) > 0
     THEN /\ Enter(List(rawData), sectorWeights)
          /\ handler' = "effect"
          /\ effectDue' = effectDue
     ELSE /\ effectDue' = "no"
          /\ handler' = handler
          /\ UNCHANGED pipeVars
  /\ UNCHANGED <<rawData, data, sectorWeights, error, readers, changes, shown, selectedSector,
                 selectedCountry, past>>

\* the effect after processExcelData returned: setData(processedData)
EffectReturn ==
  /\ handler = "effect"
  /\ pc = "Returned"
  /\ data' = result
  /\ shown' = ThisCall
  /\ effectDue' = "no"
  /\ handler' = "none"
  /\ Leave
  /\ UNCHANGED <<rawData, sectorWeights, error, readers, changes, selectedSector,
                 selectedCountry, past>>

\* faulty variant: the new object is spread from the defaults, not from prev
handleSectorWeightChange_FromDefaults(sector, value) ==
  /\ Idle
  /\ effectDue = "no"
  /\ Len(data) > 0
  /\ changes < MaxChanges
  /\ sectorWeights' = [defaultSectorWeights EXCEPT !.w[sector] = value]
  /\ effectDue' = "sectorWeights"
  /\ changes' = changes + 1
  /\ UNCHANGED <<rawData, data, error, readers, handler, shown, selectedSector,
                 selectedCountry, past>>
  /\ UNCHANGED pipeVars

\* handleSectorWeightChange(sector, value); the sliders are rendered only
\* while data is not empty
handleSectorWeightChange(sector, value) ==
  /\ Idle
  /\ effectDue = "no"
  /\ Len(data) > 0
  /\ changes < MaxChanges
  /\ sectorWeights' = [sectorWeights EXCEPT !.w[sector] = value]
  /\ effectDue' = "sectorWeights"
  /\ changes' = changes + 1
  /\ UNCHANGED <<rawData, data, error, readers, handler, shown, selectedSector,
                 selectedCountry, past>>
  /\ UNCHANGED pipeVars

\* what a click in the pie chart or on the map passes: null or a name
SelectSectorPool == {"null", "ai"}
SelectCountryPool == {"null", "Chad"}

\* handleSectorSelect(sector); the charts are rendered only while data is
\* not empty
handleSectorSelect(sector) ==
  /\ Idle
  /\ effectDue = "no"
  /\ Len(data) > 0
  /\ selectedSector' = sector
  /\ UNCHANGED <<rawData, data, sectorWeights, error, readers, effectDue, handler,
                 changes, shown, selectedCountry, past>>
  /\ UNCHANGED pipeVars

\* handleCountrySelect(country)
handleCountrySelect(country) ==
  /\ Idle
  /\ effectDue = "no"
  /\ Len(data) > 0
  /\ selectedCountry' = country
  /\ UNCHANGED <<rawData, data, sectorWeights, error, readers, effectDue, handler,
                 changes, shown, selectedSector, past>>
  /\ UNCHANGED pipeVars

\* the stages of a call made by App (sectorWeights is always an object, so
\* the scoring map cannot throw there)
NextApp ==
  \/ \E file \in FilePool : onDrop(file)
  \/ \E i \in 1..MaxReaders : onload(i)
  \/ onloadReturn
  \/ \E i \in 1..MaxReaders : onerror(i)
  \/ Effect
  \/ EffectReturn
  \/ \E sector \in SliderSectors, value \in SliderPool :
       handleSectorWeightChange(sector, value)
  \/ \E sector \in SelectSectorPool : handleSectorSelect(sector)
  \/ \E country \in SelectCountryPool : handleCountrySelect(country)
  \/ ValidateHeader
  \/ ValidateRow
  \/ ValidateEnd
  \/ ShortCircuit
  \/ Normalize
  \/ Score

SpecApp == Init /\ [][NextApp]_vars

\* the effect is running because sectorWeights changed
RescoringAfterWeightChange == handler = "effect" /\ effectDue = "sectorWeights"

ScoredFrom(record, row, weights) ==
  /\ row.t = "object"
  /\ Cell(row, "Country").t = "string"
  /\ record.country = StandardName(Str(Trim(Cell(row, "Country").s)))
  /\ \A sector \in Sectors :
       /\ record[sector] = Cell(row, COLUMN_MAPPINGS(sector))
       /\ record.sectorScores[sector] =
            Times(ParseFloat(record[sector]), WeightOf(weights, sector))

\* C22: whatever the order of load completions and weight changes, data
\* changes only when a call of processExcelData has returned, and then to the
\* whole output of that call; every record shown is made from a row of that
\* call's one row set under that call's one weights value.
C22_DataFromOneCall ==
  /\ [](\A i \in 1..Len(data) :
          \E j \in 1..Len(shown.rows) :
            ScoredFrom(data[i], shown.rows[j], shown.weights))
  /\ [][data' # data =>
          /\ pc = "Returned"
          /\ data' = result
          /\ shown' = ThisCall]_vars

\* the first file is shown, a weight was changed, and the second file's
\* onload has just scored its rows with the weights captured at the drop
C22_Witness ==
  /\ handler = "onload"
  /\ pc = "Returned"
  /\ Len(data) = 1
  /\ Len(result) = 2
  /\ shown.rows = <<BaseRow>>
  /\ argRows.rows # shown.rows
  /\ argWeights = defaultSectorWeights
  /\ sectorWeights # defaultSectorWeights
  /\ shown.weights = sectorWeights

\* no callback is running and the effect has run since the last change of
\* rawData or sectorWeights
Settled == Idle /\ effectDue = "no"

\* C25: when rawData is not empty and the effect has run since the last
\* change of rawData or sectorWeights, data is the output of the call
\* processExcelData(rawData, sectorWeights) for the current rawData and the
\* current weights: that call is the one whose output was stored, and every
\* record shown is made from a row of rawData under sectorWeights.
C25_DataIsCurrent ==
  (Settled /\ Len(rawData) > 0) =>
    /\ shown = [rows |-> rawData, weights |-> sectorWeights]
    /\ \A i \in 1..Len(data) :
         \E j \in 1..Len(rawData) : ScoredFrom(data[i], rawData[j], sectorWeights)

\* both files were dropped before the first load, ai was moved to 0.5 after
\* it, and the second load is done: its rows are shown under the new weights
C25_Witness ==
  /\ Settled
  /\ readers = <<>>
  /\ changes = 1
  /\ sectorWeights = AiHalfWeights
  /\ rawData = <<Row(Str(s_USA), Num(2), Num(1)), BaseRow>>
  /\ Len(data) = 2
  /\ data[1].sectorScores["ai"] = Num(20)
  /\ data[2].totalScore = Num(26)

\* C26: once no callback is running and no effect is pending, a non-null
\* error message implies that data is empty.
C26_ErrorMeansNoData ==
  (Settled /\ error # "null") => data = <<>>

\* the same countries with the same raw sector fields, in the same order
SameCountries(a, b) ==
  /\ Len(a) = Len(b)
  /\ \A i \in 1..Len(a) :
       /\ a[i].country = b[i].country
       /\ \A sector \in Sectors : a[i][sector] = b[i][sector]

\* C27: a call on the row set whose records are shown returns, whatever its
\* weights, as many records as are shown, with the same countries in the same
\* order; so the call the effect makes after a weight change cannot empty
\* data nor add, drop or reorder countries.
C27_CountriesIndependentOfWeights ==
  /\ (pc = "Returned" /\ handler # "none" /\ shown.rows = argRows.rows) =>
       SameCountries(result, data)
  /\ (RescoringAfterWeightChange /\ pc = "Returned") =>
       /\ Len(data) > 0
       /\ SameCountries(result, data)

\* the second weight change on the two-row file: the weights differ from
\* those of the records shown, the countries do not
C27_Witness ==
  /\ RescoringAfterWeightChange
  /\ pc = "Returned"
  /\ changes = 2
  /\ shown.weights # argWeights
  /\ shown.weights # defaultSectorWeights
  /\ Len(data) = 2
  /\ result[1].country = Str(s_UnitedStatesofAmerica)
  /\ result[1].totalScore # data[1].totalScore

\* C30: a step that changes the weights (or counts as a weight change)
\* changes one sector's weight, to a slider position, and leaves the other
\* five weights, rawData, data, the selected sector, the selected country and
\* the error message as they were; the effect that follows calls
\* processExcelData(rawData, sectorWeights) when rawData is not empty and
\* leaves data alone when it is empty.
C30_WeightChangeFrame ==
  [][/\ (changes' # changes) =>
          /\ \E sector \in Sectors :
               /\ sectorWeights' =
                    [sectorWeights EXCEPT !.w[sector] = sectorWeights'.w[sector]]
               /\ sectorWeights'.w[sector] \in SliderPool
          /\ rawData' = rawData
          /\ data' = data
          /\ selectedSector' = selectedSector
          /\ selectedCountry' = selectedCountry
          /\ error' = error
          /\ effectDue' = "sectorWeights"
     /\ (Idle /\ effectDue = "sectorWeights") =>
          /\ data' = data
          /\ IF Len(rawData) > 0
             THEN /\ pc' = "Validating"
                  /\ argRows' = List(rawData)
                  /\ argWeights' = sectorWeights
             ELSE pc' = "Empty" /\ effectDue' = "no"
     /\ (sectorWeights' # sectorWeights) => (changes' # changes)]_vars

\* the first file is shown, the second had no rows: rawData is empty, ai was
\* moved to 0.5 and fintech after it, and data was not recomputed
C30_Witness ==
  /\ Settled
  /\ changes = 2
  /\ rawData = <<>>
  /\ Len(data) = 1
  /\ sectorWeights.w["ai"] = Num(10)
  /\ sectorWeights.w["fintech"] = Num(10)
  /\ sectorWeights.w["space"] = Num(4)
  /\ shown.weights = defaultSectorWeights
  /\ selectedSector = "ai"
  /\ selectedCountry = "Chad"
  /\ error = "Failed to process data"

=============================================================================
